---- MODULE Spec2Model ----
(***************************************************************************)
(* Model of the pinot traces exporter                                      *)
(* (exporter/pinottracesexporter/pinot_exporter.go).                       *)
(*                                                                         *)
(* The exporter turns every span of a batch into a structured record       *)
(* (newStructuredSpan) and writes up to three kafka messages for it        *)
(* (storage.write): a trace-model message, an index message and an error   *)
(* message.                                                                *)
(*                                                                         *)
(* Representation                                                          *)
(*  - a pdata.SpanID / pdata.TraceID is its byte array (a tuple of 8 / 16  *)
(*    bytes);                                                              *)
(*  - a pdata.AttributeValue is [type, str, int]; a pdata.AttributeMap is  *)
(*    the sequence of its [key, value] entries in iteration order, keys    *)
(*    distinct;                                                            *)
(*  - a Go map[string]string is a set of [k, v] entries with distinct k;   *)
(*  - the bytes json.Marshal yields for a value v are [json |-> v]: the    *)
(*    encoding is injective on the values marshalled here (strings,        *)
(*    integers, booleans, string maps), and none of them can fail to       *)
(*    marshal;                                                             *)
(*  - md5 is taken as collision free on the strings that occur;            *)
(*  - uuid.New() is a generator that never repeats a value: its state is   *)
(*    the number of values drawn so far.                                   *)
(***************************************************************************)
EXTENDS Integers, Sequences, FiniteSets, TLC

VARIABLES
    spanKafkaWriter,   \* storage.spanKafkaWriter  # nil
    indexKafkaWriter,  \* storage.indexKafkaWriter # nil
    errorKafkaWriter,  \* storage.errorKafkaWriter # nil
    spanTopic,         \* messages accepted by "signoz-spans-topic"
    indexTopic,        \* messages accepted by "signoz-index-v2-topic"
    errorTopic,        \* messages accepted by "signoz-error-index-v2-topic"
    attempts,          \* every WriteMessages call so far, in call order
    uuidState,         \* number of uuid.New() calls so far
    pc,                \* position of the pushTraceData call in progress
    td,                \* the batch of the current / last pushTraceData call
    pos,               \* <<i, j, k>>: resource, library and span index
    structuredSpan,    \* the record of the span being written
    pushes,            \* number of pushTraceData calls started
    returned,          \* what the last finished pushTraceData call returned
    writeErr,          \* what the last finished storage.write call returned
    fnIn,              \* input of the last direct call of a pure function
    fnOut              \* its result

vars == <<spanKafkaWriter, indexKafkaWriter, errorKafkaWriter, spanTopic,
          indexTopic, errorTopic, attempts, uuidState, pc, td, pos,
          structuredSpan, pushes, returned, writeErr, fnIn,
          fnOut>>

----------------------------------------------------------------------------
(* Bounds of the model.                                                    *)

MaxResources == 2     \* resources per batch
MaxPushes == 2        \* pushTraceData calls per behaviour of SpecResubmit
MaxLinks == 2         \* links per generated span
MaxAttrs == 2         \* entries per generated attribute map
MaxEvents == 3        \* events per generated span
MaxParsedInt == 20    \* largest integer strconv.Atoi is asked to recognise

----------------------------------------------------------------------------
(* Library functions the exporter calls.                                   *)

DigitChar(d) ==
    CASE d = 0 -> "0" [] d = 1 -> "1" [] d = 2 -> "2" [] d = 3 -> "3"
      [] d = 4 -> "4" [] d = 5 -> "5" [] d = 6 -> "6" [] d = 7 -> "7"
      [] d = 8 -> "8" [] d = 9 -> "9" [] d = 10 -> "a" [] d = 11 -> "b"
      [] d = 12 -> "c" [] d = 13 -> "d" [] d = 14 -> "e" [] d = 15 -> "f"

RECURSIVE FormatNat(_)
FormatNat(n) ==
    IF n < 10 THEN DigitChar(n)
    ELSE FormatNat(n \div 10) \o DigitChar(n % 10)

\* strconv.FormatInt(n, 10)
FormatInt(n) == IF n < 0 THEN "-" \o FormatNat(-n) ELSE FormatNat(n)

\* strconv.Atoi(s) for the decimal renderings of -MaxParsedInt..MaxParsedInt;
\* every other string of the model is not a number and yields an error.
Atoi(s) ==
    LET hit == {n \in (-MaxParsedInt)..MaxParsedInt : FormatInt(n) = s}
    IN  IF hit = {} THEN [err |-> TRUE, n |-> 0]
        ELSE [err |-> FALSE, n |-> CHOOSE n \in hit : TRUE]

\* hex.EncodeToString
RECURSIVE HexEncode(_)
HexEncode(bytes) ==
    IF bytes = <<>> THEN ""
    ELSE DigitChar(Head(bytes) \div 16) \o DigitChar(Head(bytes) % 16)
         \o HexEncode(Tail(bytes))

\* pdata.SpanID.IsEmpty / pdata.TraceID.IsEmpty: all bytes are zero
IsEmpty(id) == \A n \in 1..Len(id) : id[n] = 0

\* pdata.SpanID.Bytes / pdata.TraceID.Bytes: the fixed-size byte array
Bytes(id) == id

\* pdata.SpanID.HexString / pdata.TraceID.HexString
HexString(id) == IF IsEmpty(id) THEN "" ELSE HexEncode(Bytes(id))

\* pdata.AttributeValue accessors
StringVal(v) == IF v.type = "STRING" THEN v.str ELSE ""
IntVal(v) == IF v.type = "INT" THEN v.int ELSE 0
TypeString(v) == v.type

StrValue(s) == [type |-> "STRING", str |-> s, int |-> 0]
IntValue(n) == [type |-> "INT", str |-> "", int |-> n]
BoolValue == [type |-> "BOOL", str |-> "", int |-> 0]

\* pdata.AttributeMap.Get
AttrFound(attributes, k) == \E n \in 1..Len(attributes) : attributes[n].key = k
AttrGet(attributes, k) ==
    attributes[CHOOSE n \in 1..Len(attributes) :
                   /\ attributes[n].key = k
                   /\ \A m \in 1..(n - 1) : attributes[m].key # k].value

\* Go map[string]string: read (the zero value "" for a missing key, also of
\* a nil map) and assignment
MapGet(m, k) ==
    IF \E e \in m : e.k = k THEN (CHOOSE e \in m : e.k = k).v ELSE ""
MapPut(m, k, v) == {e \in m : e.k # k} \cup {[k |-> k, v |-> v]}
MapHas(m, k) == \E e \in m : e.k = k

\* json.Marshal
JsonMarshal(v) == [json |-> v]

\* url.Parse(value) followed by URL.Hostname(), for the strings of the model:
\* an absolute URL has its host, a string without "//" parses as a path with
\* an empty host, and ":bad" does not parse ("missing protocol scheme").
UrlParse(value) ==
    CASE value = "https://api.example.com/v1" ->
            [err |-> FALSE, hostname |-> "api.example.com"]
      [] value = ":bad" -> [err |-> TRUE, hostname |-> ""]
      [] OTHER -> [err |-> FALSE, hostname |-> ""]

\* fmt.Sprintf("%x", md5.Sum([]byte(s)))
Md5Hex(s) == "md5(" \o s \o ")"

\* The n-th value of uuid.New(), as the groups that String() joins with "-".
UuidNew(n) == <<"u", FormatNat(n)>>

\* strings.Replace(u.String(), "-", "", -1)
RECURSIVE UuidNoHyphens(_)
UuidNoHyphens(groups) ==
    IF groups = <<>> THEN "" ELSE Head(groups) \o UuidNoHyphens(Tail(groups))

\* strings.ToLower(s) == "true"
StringToBool(s) == s \in {"true", "True", "TRUE"}

----------------------------------------------------------------------------
(* The pure functions of pinot_exporter.go.                                *)

LinkRef(link) ==
    [TraceId |-> HexString(link.TraceID), SpanId |-> HexString(link.SpanID),
     RefType |-> "FOLLOWS_FROM"]

ParentRef(parentSpanID, traceID) ==
    [TraceId |-> HexString(traceID), SpanId |-> HexString(parentSpanID),
     RefType |-> "CHILD_OF"]

\* parentSpanIDSet := len(parentSpanID.Bytes()) != 0
ParentSpanIDSet(parentSpanID) == Len(Bytes(parentSpanID)) # 0

RECURSIVE LinkRefs(_)
LinkRefs(links) ==
    IF links = <<>> THEN <<>>
    ELSE <<LinkRef(Head(links))>> \o LinkRefs(Tail(links))

makeJaegerProtoReferencesLinksFirst(links, parentSpanID, traceID) ==
    IF ~ParentSpanIDSet(parentSpanID) /\ Len(links) = 0 THEN <<>>
    ELSE LinkRefs(links)
         \o (IF ParentSpanIDSet(parentSpanID)
             THEN <<ParentRef(parentSpanID, traceID)>> ELSE <<>>)

makeJaegerProtoReferences(links, parentSpanID, traceID) ==
    IF ~ParentSpanIDSet(parentSpanID) /\ Len(links) = 0 THEN <<>>
    ELSE (IF ParentSpanIDSet(parentSpanID)
          THEN <<ParentRef(parentSpanID, traceID)>> ELSE <<>>)
         \o LinkRefs(links)

ServiceNameForResource(resource) ==
    IF ~AttrFound(resource.Attributes, "service.name")
    THEN "<nil-service-name>"
    ELSE StringVal(AttrGet(resource.Attributes, "service.name"))

\* The status an "rpc.grpc.status_code" attribute stands for.
GrpcStatusInt(v) ==
    LET parsed == Atoi(StringVal(v))
    IN  IF ~parsed.err /\ parsed.n # 0 THEN parsed.n ELSE IntVal(v)

JsonRpcErrorCodeIfUnset(span, v) ==
    IF span.ResponseStatusCode = ""
    THEN [span EXCEPT !.ResponseStatusCode = StringVal(v)] ELSE span

\* The "rpc.jsonrpc.error_code" branch
JsonRpcErrorCode(span, v) == [span EXCEPT !.ResponseStatusCode = StringVal(v)]

\* One call of the callback populateOtherDimensions hands to Range.
PopulateDimension(attributes, span, k, v) ==
    IF k = "http.status_code" THEN
        [span EXCEPT !.HasError = IF IntVal(v) >= 400 THEN TRUE ELSE @,
                     !.HttpCode = FormatInt(IntVal(v)),
                     !.ResponseStatusCode = FormatInt(IntVal(v))]
    ELSE IF k = "http.url" /\ span.Kind = 3 THEN
        [span EXCEPT !.ExternalHttpUrl =
            IF ~UrlParse(StringVal(v)).err
            THEN UrlParse(StringVal(v)).hostname ELSE StringVal(v)]
    ELSE IF k = "http.method" /\ span.Kind = 3 THEN
        [span EXCEPT !.ExternalHttpMethod = StringVal(v)]
    ELSE IF k = "http.url" /\ span.Kind # 3 THEN
        [span EXCEPT !.HttpUrl = StringVal(v)]
    ELSE IF k = "http.method" /\ span.Kind # 3 THEN
        [span EXCEPT !.HttpMethod = StringVal(v)]
    ELSE IF k = "http.route" THEN [span EXCEPT !.HttpRoute = StringVal(v)]
    ELSE IF k = "http.host" THEN [span EXCEPT !.HttpHost = StringVal(v)]
    ELSE IF k = "messaging.system" THEN
        [span EXCEPT !.MsgSystem = StringVal(v)]
    ELSE IF k = "messaging.operation" THEN
        [span EXCEPT !.MsgOperation = StringVal(v)]
    ELSE IF k = "component" THEN [span EXCEPT !.Component = StringVal(v)]
    ELSE IF k = "db.system" THEN [span EXCEPT !.DBSystem = StringVal(v)]
    ELSE IF k = "db.name" THEN [span EXCEPT !.DBName = StringVal(v)]
    ELSE IF k = "db.operation" THEN [span EXCEPT !.DBOperation = StringVal(v)]
    ELSE IF k = "peer.service" THEN [span EXCEPT !.PeerService = StringVal(v)]
    ELSE IF k = "rpc.grpc.status_code" THEN
        [span EXCEPT !.HasError = IF GrpcStatusInt(v) >= 2 THEN TRUE ELSE @,
                     !.GRPCCode = FormatInt(GrpcStatusInt(v)),
                     !.ResponseStatusCode = FormatInt(GrpcStatusInt(v))]
    ELSE IF k = "rpc.method" THEN
        [span EXCEPT !.RPCMethod = StringVal(v),
                     !.GRPCMethod =
                        IF /\ AttrFound(attributes, "rpc.system")
                           /\ StringVal(AttrGet(attributes, "rpc.system")) = "grpc"
                        THEN StringVal(v) ELSE @]
    ELSE IF k = "rpc.service" THEN [span EXCEPT !.RPCService = StringVal(v)]
    ELSE IF k = "rpc.system" THEN [span EXCEPT !.RPCSystem = StringVal(v)]
    ELSE IF k = "rpc.jsonrpc.error_code" THEN JsonRpcErrorCode(span, v)
    ELSE span

\* populateOtherDimensions from the n-th attribute on, in Range's order.
RECURSIVE PopulateDimensionsFrom(_, _, _)
PopulateDimensionsFrom(attributes, n, span) ==
    IF n > Len(attributes) THEN span
    ELSE PopulateDimensionsFrom(attributes, n + 1,
            PopulateDimension(attributes, span,
                              attributes[n].key, attributes[n].value))

populateOtherDimensions(attributes, span) ==
    PopulateDimensionsFrom(attributes, 1, span)

\* The string an attribute contributes to a string map (event.AttributeMap):
\* integers in decimal, everything else by StringVal.
EventAttrString(v) ==
    IF TypeString(v) = "INT" THEN FormatInt(IntVal(v)) ELSE StringVal(v)

RECURSIVE EventAttributeMap(_, _, _)
EventAttributeMap(attributes, n, m) ==
    IF n > Len(attributes) THEN m
    ELSE EventAttributeMap(attributes, n + 1,
            MapPut(m, attributes[n].key, EventAttrString(attributes[n].value)))

\* Event{}: the zero value of the Event struct
ZeroEvent == [Name |-> "", TimeUnixNano |-> 0, AttributeMap |-> {},
              IsError |-> FALSE]

\* The Event built for one pdata.SpanEvent (lines 221-233), IsError apart.
NewEvent(ev) ==
    [Name |-> ev.Name, TimeUnixNano |-> ev.Timestamp,
     AttributeMap |-> EventAttributeMap(ev.Attributes, 1, {}),
     IsError |-> FALSE]

ErrorGroupInputWithTrace(span, event) ==
    span.ServiceName \o span.TraceId
        \o MapGet(event.AttributeMap, "exception.type")
        \o MapGet(event.AttributeMap, "exception.message")

\* The md5 input of the error group: service name, type and message.
ErrorGroupInput(span, event) ==
    span.ServiceName \o MapGet(event.AttributeMap, "exception.type")
        \o MapGet(event.AttributeMap, "exception.message")

MarkFirstErrorEvent(st, event) ==
    IF st.span.ErrorEvent.Name # "" THEN st.span
    ELSE [st.span EXCEPT
            !.ErrorEvent = event,
            !.ErrorID = UuidNoHyphens(UuidNew(st.uuid + 1)),
            !.ErrorGroupID = Md5Hex(ErrorGroupInput(st.span, event))]

\* The record after the branch for an event named "exception" (lines
\* 236-241): the event is the designated error event, with a new error id
\* and its group id.
MarkErrorEvent(st, event) ==
    [st.span EXCEPT
        !.ErrorEvent = event,
        !.ErrorID = UuidNoHyphens(UuidNew(st.uuid + 1)),
        !.ErrorGroupID = Md5Hex(ErrorGroupInput(st.span, event))]

\* The body of populateEvents' loop for one event. st = [span, uuid]: the
\* record and the state of the uuid generator.
PopulateEvent(st, ev) ==
    LET event == IF ev.Name = "exception"
                 THEN [NewEvent(ev) EXCEPT !.IsError = TRUE]
                 ELSE NewEvent(ev)
        marked == IF ev.Name = "exception"
                  THEN MarkErrorEvent(st, event) ELSE st.span
    IN  [span |-> [marked EXCEPT !.Events = Append(@, JsonMarshal(event))],
         uuid |-> IF ev.Name = "exception" THEN st.uuid + 1 ELSE st.uuid]

RECURSIVE PopulateEventsFrom(_, _, _)
PopulateEventsFrom(events, n, st) ==
    IF n > Len(events) THEN st
    ELSE PopulateEventsFrom(events, n + 1, PopulateEvent(st, events[n]))

populateEvents(events, st) == PopulateEventsFrom(events, 1, st)

populateTraceModel(span) ==
    [span EXCEPT !.TraceModel.Events = span.Events,
                 !.TraceModel.HasError = span.HasError]

\* The string an attribute contributes to the tag map: none when it is not
\* an integer and its StringVal is empty.
TagMapPut(tagMap, k, v) ==
    IF TypeString(v) = "INT" THEN MapPut(tagMap, k, FormatInt(IntVal(v)))
    ELSE IF StringVal(v) # "" THEN MapPut(tagMap, k, StringVal(v))
    ELSE tagMap

RECURSIVE TagMapRange(_, _, _)
TagMapRange(attributes, n, tagMap) ==
    IF n > Len(attributes) THEN tagMap
    ELSE TagMapRange(attributes, n + 1,
            TagMapPut(tagMap, attributes[n].key, attributes[n].value))

MergedTagMapSpanLast(attributes, resourceAttributes) ==
    TagMapRange(attributes, 1, TagMapRange(resourceAttributes, 1, {}))

\* tagMap after both Range calls of newStructuredSpan
MergedTagMap(attributes, resourceAttributes) ==
    TagMapRange(resourceAttributes, 1, TagMapRange(attributes, 1, {}))

\* The Span literal of newStructuredSpan (lines 285-309); the fields it does
\* not name have Go's zero values.
SpanLiteral(otelSpan, ServiceName, tagMap, references) ==
    [TraceId |-> HexString(otelSpan.TraceID),
     SpanId |-> HexString(otelSpan.SpanID),
     ParentSpanId |-> HexString(otelSpan.ParentSpanID),
     Name |-> otelSpan.Name,
     StartTimeUnixNano |-> otelSpan.StartTimestamp,
     DurationNano |-> otelSpan.EndTimestamp - otelSpan.StartTimestamp,
     ServiceName |-> ServiceName,
     Kind |-> otelSpan.Kind,
     StatusCode |-> otelSpan.StatusCode,
     TagMap |-> tagMap,
     HasError |-> FALSE,
     TraceModel |->
        [TraceId |-> HexString(otelSpan.TraceID),
         SpanId |-> HexString(otelSpan.SpanID),
         Name |-> otelSpan.Name,
         DurationNano |-> otelSpan.EndTimestamp - otelSpan.StartTimestamp,
         StartTimeUnixNano |-> otelSpan.StartTimestamp,
         ServiceName |-> ServiceName,
         Kind |-> otelSpan.Kind,
         References |-> references,
         TagMap |-> tagMap,
         HasError |-> FALSE,
         Events |-> <<>>],
     ExternalHttpMethod |-> "", ExternalHttpUrl |-> "", Component |-> "",
     DBSystem |-> "", DBName |-> "", DBOperation |-> "", PeerService |-> "",
     Events |-> <<>>, HttpMethod |-> "", HttpUrl |-> "", HttpCode |-> "",
     HttpRoute |-> "", HttpHost |-> "", MsgSystem |-> "", MsgOperation |-> "",
     GRPCCode |-> "", GRPCMethod |-> "", RPCMethod |-> "", RPCService |-> "",
     RPCSystem |-> "", ResponseStatusCode |-> "",
     ErrorEvent |-> ZeroEvent, ErrorID |-> "", ErrorGroupID |-> ""]

\* HasError as set from the status code (lines 311-313)
StatusError(span) ==
    IF span.StatusCode = 2 THEN [span EXCEPT !.HasError = TRUE] ELSE span

\* newStructuredSpan with the uuid generator in state uuid: [span, uuid],
\* the record and the state the generator is left in.
newStructuredSpan(otelSpan, ServiceName, resource, uuid) ==
    LET tagMap == MergedTagMap(otelSpan.Attributes, resource.Attributes)
        references == makeJaegerProtoReferences(otelSpan.Links,
                          otelSpan.ParentSpanID, otelSpan.TraceID)
        span0 == StatusError(SpanLiteral(otelSpan, ServiceName, tagMap, references))
        span1 == populateOtherDimensions(otelSpan.Attributes, span0)
        st == populateEvents(otelSpan.Events, [span |-> span1, uuid |-> uuid])
    IN  [span |-> populateTraceModel(st.span), uuid |-> st.uuid]

----------------------------------------------------------------------------
(* The kafka messages (kafka.Message.Time, the wall clock, is left out).   *)

\* kafka.Message{Key: []byte(strconv.Itoa(1)), Value: dataJsonBytes}
KafkaMessage(data) == [Key |-> FormatInt(1), Value |-> JsonMarshal(data)]

ModelMessage(span) ==
    KafkaMessage([timestamp |-> span.StartTimeUnixNano,
                  traceID |-> span.TraceId,
                  model |-> JsonMarshal(span.TraceModel)])

IndexMessage(span) ==
    KafkaMessage([timestamp |-> span.StartTimeUnixNano,
                  traceID |-> span.TraceId,
                  spanID |-> span.SpanId,
                  parentSpanID |-> span.ParentSpanId,
                  serviceName |-> span.ServiceName,
                  name |-> span.Name,
                  kind |-> span.Kind,
                  durationNanos |-> span.DurationNano,
                  statusCode |-> span.StatusCode,
                  externalHttpMethod |-> span.ExternalHttpMethod,
                  externalHttpUrl |-> span.ExternalHttpUrl,
                  component |-> span.Component,
                  dbSystem |-> span.DBSystem,
                  dbName |-> span.DBName,
                  dbOperation |-> span.DBOperation,
                  peerService |-> span.PeerService,
                  events |-> span.Events,
                  httpMethod |-> span.HttpMethod,
                  httpUrl |-> span.HttpUrl,
                  httpCode |-> span.HttpCode,
                  httpRoute |-> span.HttpRoute,
                  httpHost |-> span.HttpHost,
                  msgSystem |-> span.MsgSystem,
                  msgOperation |-> span.MsgOperation,
                  hasError |-> span.HasError,
                  tagMap |-> span.TagMap])

HasErrorEventOrFlag(span) == span.ErrorEvent.Name # "" \/ span.HasError

\* writeError sends nothing for a record without a designated error event.
HasErrorEvent(span) == span.ErrorEvent.Name # ""

ErrorMessage(span) ==
    KafkaMessage([timestamp |-> span.ErrorEvent.TimeUnixNano,
                  errorID |-> span.ErrorID,
                  groupID |-> span.ErrorGroupID,
                  traceID |-> span.TraceId,
                  spanID |-> span.SpanId,
                  serviceName |-> span.ServiceName,
                  exceptionType |->
                      MapGet(span.ErrorEvent.AttributeMap, "exception.type"),
                  exceptionMessage |->
                      MapGet(span.ErrorEvent.AttributeMap, "exception.message"),
                  exceptionStacktrace |->
                      MapGet(span.ErrorEvent.AttributeMap, "exception.stacktrace"),
                  exceptionEscaped |->
                      StringToBool(MapGet(span.ErrorEvent.AttributeMap,
                                          "exception.escaped"))])

----------------------------------------------------------------------------
(* The loops of pushTraceData.                                             *)

Done == <<0, 0, 0>>
NoSpan == [Name |-> "<no span>"]

\* The first position at or after <<i, j, k>> at which the three nested
\* loops find a span; Done when they run out.
RECURSIVE LoopFrom(_, _, _, _)
LoopFrom(batch, i, j, k) ==
    IF i > Len(batch) THEN Done
    ELSE IF j > Len(batch[i].ILS) THEN LoopFrom(batch, i + 1, 1, 1)
    ELSE IF k > Len(batch[i].ILS[j]) THEN LoopFrom(batch, i, j + 1, 1)
    ELSE <<i, j, k>>

\* The position the loops reach after the span at p.
AfterSpan(batch, p) == LoopFrom(batch, p[1], p[2], p[3] + 1)

\* pushTraceData arrives at position p of batch: it returns nil when the
\* loops are over, and else builds the span's record and calls write.
Iterate(batch, p) ==
    /\ pos' = p
    /\ IF p = Done
       THEN /\ pc' = "idle"
            /\ returned' = "nil"
            /\ structuredSpan' = NoSpan
            /\ UNCHANGED uuidState
       ELSE LET rs == batch[p[1]]
                built == newStructuredSpan(rs.ILS[p[2]][p[3]],
                             ServiceNameForResource(rs), rs, uuidState)
            IN  /\ pc' = "writeModel"
                /\ structuredSpan' = built.span
                /\ uuidState' = built.uuid
                /\ UNCHANGED returned

Attempt(topic, ok) ==
    [push |-> pushes, pos |-> pos, topic |-> topic, ok |-> ok]

----------------------------------------------------------------------------
(* Inputs.                                                                 *)

SpanIDOf(b) == <<0, 0, 0, 0, 0, 0, 0, b>>
TraceIDOf(b) == <<0, 0, 0, 0, 0, 0, 0, 0, 0, 0, 0, 0, 0, 0, 0, b>>
EmptySpanID == SpanIDOf(0)

Attr(k, v) == [key |-> k, value |-> v]
SpanEvent(name, ts, attributes) ==
    [Name |-> name, Timestamp |-> ts, Attributes |-> attributes]
Link(traceID, spanID) == [TraceID |-> traceID, SpanID |-> spanID]

\* Sequences over S of length at most n
SeqUpTo(S, n) == UNION {[1..m -> S] : m \in 0..n}

\* Sequences of [key, value] entries with distinct keys
DistinctKeys(attributes) ==
    \A m, n \in 1..Len(attributes) :
        m # n => attributes[m].key # attributes[n].key

ValidationError ==
    SpanEvent("exception", 7,
              <<Attr("exception.type", StrValue("ValidationError")),
                Attr("exception.message", StrValue("bad card"))>>)

\* "POST /pay": status ok, no parent, one exception event
PaySpan ==
    [TraceID |-> TraceIDOf(1), SpanID |-> SpanIDOf(10),
     ParentSpanID |-> EmptySpanID, Name |-> "POST /pay",
     StartTimestamp |-> 5, EndTimestamp |-> 9, Kind |-> 2, StatusCode |-> 1,
     Attributes |-> <<Attr("http.method", StrValue("POST"))>>,
     Events |-> <<ValidationError>>, Links |-> <<>>]

\* a child span without events
ChargeSpan ==
    [TraceID |-> TraceIDOf(1), SpanID |-> SpanIDOf(11),
     ParentSpanID |-> SpanIDOf(10), Name |-> "charge",
     StartTimestamp |-> 6, EndTimestamp |-> 8, Kind |-> 3, StatusCode |-> 0,
     Attributes |-> <<Attr("http.url", StrValue("https://api.example.com/v1")),
                      Attr("http.status_code", IntValue(200))>>,
     Events |-> <<>>, Links |-> <<Link(TraceIDOf(2), SpanIDOf(12))>>]

\* a failed span whose only event is no exception
FailedSpan ==
    [TraceID |-> TraceIDOf(2), SpanID |-> SpanIDOf(12),
     ParentSpanID |-> EmptySpanID, Name |-> "consume",
     StartTimestamp |-> 3, EndTimestamp |-> 3, Kind |-> 5, StatusCode |-> 2,
     Attributes |-> <<>>,
     Events |-> <<SpanEvent("retry", 3, <<Attr("attempt", IntValue(2))>>)>>,
     Links |-> <<>>]

Resource(attributes, ils) == [Attributes |-> attributes, ILS |-> ils]

\* The resources batches are made of: two libraries of one span each; an
\* empty library before one of two spans, without a service name; a resource
\* without libraries.
ResourcePool ==
    {Resource(<<Attr("service.name", StrValue("checkout"))>>,
              <<<<PaySpan>>, <<ChargeSpan>>>>),
     Resource(<<Attr("host.name", StrValue("h1"))>>,
              <<<<>>, <<FailedSpan, PaySpan>>>>),
     Resource(<<Attr("service.name", StrValue("idle"))>>, <<>>)}

Batches == SeqUpTo(ResourcePool, MaxResources)

----------------------------------------------------------------------------
(* The exporter: newExporter, then pushTraceData calls.                    *)

NoCall == [op |-> "none"]

\* newExporter / storage.init: the three writers are created, nothing has
\* been written.
Init ==
    /\ spanKafkaWriter = TRUE
    /\ indexKafkaWriter = TRUE
    /\ errorKafkaWriter = TRUE
    /\ spanTopic = <<>>
    /\ indexTopic = <<>>
    /\ errorTopic = <<>>
    /\ attempts = <<>>
    /\ uuidState = 0
    /\ pc = "idle"
    /\ td = <<>>
    /\ pos = Done
    /\ structuredSpan = NoSpan
    /\ pushes = 0
    /\ returned = "none"
    /\ writeErr = "none"
    /\ fnIn = NoCall
    /\ fnOut = NoCall

\* The host calls pushTraceData(ctx, batch); the call runs up to its first
\* kafka write, or to its return when the batch holds no span.
PushTraceData(batch) ==
    /\ pc = "idle"
    /\ td' = batch
    /\ pushes' = pushes + 1
    /\ Iterate(batch, LoopFrom(batch, 1, 1, 1))
    /\ UNCHANGED <<spanKafkaWriter, indexKafkaWriter, errorKafkaWriter,
                   spanTopic, indexTopic, errorTopic, attempts, writeErr,
                   fnIn, fnOut>>

WriteReturnsToCaller(err) ==
    /\ writeErr' = err
    /\ IF err # "nil"
       THEN /\ pc' = "idle"
            /\ returned' = err
            /\ pos' = Done
            /\ structuredSpan' = NoSpan
            /\ UNCHANGED uuidState
       ELSE Iterate(td, AfterSpan(td, pos))

\* write returns err to pushTraceData, which logs it when it is not nil and
\* goes on to the next span.
WriteReturns(err) ==
    /\ writeErr' = err
    /\ Iterate(td, AfterSpan(td, pos))

\* write reaches writeModel; ok is whether the broker accepts the message.
\* A refused message makes writeModel, and so write, return the error.
WriteModel(ok) ==
    /\ pc = "writeModel"
    /\ IF ~spanKafkaWriter
       THEN /\ pc' = "writeIndex"
            /\ UNCHANGED <<spanTopic, attempts, pos, structuredSpan,
                           uuidState, returned, writeErr>>
       ELSE /\ attempts' = Append(attempts, Attempt("model", ok))
            /\ IF ok
               THEN /\ spanTopic' = Append(spanTopic, ModelMessage(structuredSpan))
                    /\ pc' = "writeIndex"
                    /\ UNCHANGED <<pos, structuredSpan, uuidState, returned,
                                   writeErr>>
               ELSE /\ WriteReturns("model write failed")
                    /\ UNCHANGED spanTopic
    /\ UNCHANGED <<spanKafkaWriter, indexKafkaWriter, errorKafkaWriter,
                   indexTopic, errorTopic, td, pushes, fnIn, fnOut>>

WriteIndexThenError(ok) ==
    /\ pc = "writeIndex"
    /\ attempts' = Append(attempts, Attempt("index", ok))
    /\ indexTopic' = IF ok THEN Append(indexTopic, IndexMessage(structuredSpan))
                     ELSE indexTopic
    /\ pc' = "writeError"
    /\ UNCHANGED <<spanKafkaWriter, indexKafkaWriter, errorKafkaWriter,
                   spanTopic, errorTopic, td, pushes, fnIn, fnOut, pos,
                   structuredSpan, uuidState, returned, writeErr>>

WriteIndex(ok) ==
    /\ pc = "writeIndex"
    /\ IF ~indexKafkaWriter
       THEN /\ pc' = "writeError"
            /\ UNCHANGED <<indexTopic, attempts, pos, structuredSpan,
                           uuidState, returned, writeErr>>
       ELSE /\ attempts' = Append(attempts, Attempt("index", ok))
            /\ IF ok
               THEN /\ indexTopic' = Append(indexTopic, IndexMessage(structuredSpan))
                    /\ pc' = "writeError"
                    /\ UNCHANGED <<pos, structuredSpan, uuidState, returned,
                                   writeErr>>
               ELSE /\ WriteReturns("index write failed")
                    /\ UNCHANGED indexTopic
    /\ UNCHANGED <<spanKafkaWriter, indexKafkaWriter, errorKafkaWriter,
                   spanTopic, errorTopic, td, pushes, fnIn, fnOut>>

\* The last write of a span: writeError sends a message only for a record
\* with a designated error event, and write returns what writeError returns.
WriteError(ok) ==
    /\ pc = "writeError"
    /\ IF errorKafkaWriter /\ HasErrorEvent(structuredSpan)
       THEN /\ attempts' = Append(attempts, Attempt("error", ok))
            /\ errorTopic' = IF ok
                             THEN Append(errorTopic, ErrorMessage(structuredSpan))
                             ELSE errorTopic
            /\ WriteReturns(IF ok THEN "nil" ELSE "error write failed")
       ELSE /\ ok
            /\ UNCHANGED <<attempts, errorTopic>>
            /\ WriteReturns("nil")
    /\ UNCHANGED <<spanKafkaWriter, indexKafkaWriter, errorKafkaWriter,
                   spanTopic, indexTopic, td, pushes, fnIn, fnOut>>

\* A new exporter serves one pushTraceData call.
PushOnce == \E batch \in Batches : pushes = 0 /\ PushTraceData(batch)

Next ==
    \/ PushOnce
    \/ \E ok \in BOOLEAN : WriteModel(ok)
    \/ \E ok \in BOOLEAN : WriteIndex(ok)
    \/ \E ok \in BOOLEAN : WriteError(ok)

Spec == Init /\ [][Next]_vars

----------------------------------------------------------------------------
(* Repeated pushTraceData calls on one exporter (SpecResubmit): batches of  *)
(* one span, among them batches that differ only in what the error group   *)
(* must not depend on.                                                     *)

OneSpanBatch(service, span) ==
    <<Resource(<<Attr("service.name", StrValue(service))>>, <<<<span>>>>)>>

\* PaySpan as another occurrence: other ids, times and attributes, its
\* exception event at another time and with a stack trace.
PaySpanAgain ==
    [PaySpan EXCEPT
        !.TraceID = TraceIDOf(2), !.SpanID = SpanIDOf(12),
        !.StartTimestamp = 6,
        !.Attributes = <<Attr("http.status_code", IntValue(500))>>,
        !.Events = <<SpanEvent("exception", 8,
                       <<Attr("exception.stacktrace", StrValue("at pay")),
                         Attr("exception.message", StrValue("bad card")),
                         Attr("exception.type", StrValue("ValidationError"))>>)>>]

\* PaySpan with another exception message
PaySpanDeclined ==
    [PaySpan EXCEPT
        !.Events = <<SpanEvent("exception", 7,
                       <<Attr("exception.type", StrValue("ValidationError")),
                         Attr("exception.message", StrValue("declined"))>>)>>]

ResubmitBatches ==
    {OneSpanBatch("checkout", PaySpan),
     OneSpanBatch("checkout", PaySpanAgain),
     OneSpanBatch("checkout", PaySpanDeclined),
     OneSpanBatch("billing", PaySpan)}

PushAgain ==
    \E batch \in ResubmitBatches : pushes < MaxPushes /\ PushTraceData(batch)

NextResubmit ==
    \/ PushAgain
    \/ \E ok \in BOOLEAN : WriteModel(ok)
    \/ \E ok \in BOOLEAN : WriteIndex(ok)
    \/ \E ok \in BOOLEAN : WriteError(ok)

SpecResubmit == Init /\ [][NextResubmit]_vars

----------------------------------------------------------------------------
(* Direct calls of makeJaegerProtoReferences and newStructuredSpan on       *)
(* generated inputs (SpecCalls).                                           *)

LinkPool ==
    {Link(TraceIDOf(1), SpanIDOf(11)), Link(TraceIDOf(2), SpanIDOf(12)),
     Link(TraceIDOf(2), SpanIDOf(171))}

ParentPool == {EmptySpanID, SpanIDOf(10), SpanIDOf(255)}

RefInputs ==
    {[op |-> "makeJaegerProtoReferences", links |-> l, parentSpanID |-> p,
      traceID |-> t] :
        l \in SeqUpTo(LinkPool, MaxLinks), p \in ParentPool,
        t \in {TraceIDOf(1), TraceIDOf(2)}}

AttrSeqs(entries) ==
    {a \in SeqUpTo(entries, MaxAttrs) : DistinctKeys(a)}

\* Span and resource attributes whose keys collide, of every kind of value
SpanTagEntries ==
    {Attr(k, v) : k \in {"k1", "k2"},
                  v \in {StrValue("b"), StrValue(""), IntValue(7), BoolValue}}
ResourceTagEntries ==
    {Attr(k, v) : k \in {"k1", "k2"},
                  v \in {StrValue("a"), StrValue(""), IntValue(0), BoolValue}}

\* Span attributes that populateOtherDimensions projects
DimensionEntries ==
    {Attr("http.status_code", IntValue(200)),
     Attr("http.status_code", IntValue(500)),
     Attr("rpc.grpc.status_code", IntValue(2)),
     Attr("rpc.grpc.status_code", StrValue("2")),
     Attr("rpc.grpc.status_code", StrValue("0")),
     Attr("rpc.grpc.status_code", StrValue("UNKNOWN")),
     Attr("rpc.jsonrpc.error_code", StrValue("-32700")),
     Attr("rpc.jsonrpc.error_code", IntValue(5)),
     Attr("http.url", StrValue("https://api.example.com/v1")),
     Attr("http.url", StrValue(":bad")),
     Attr("rpc.method", StrValue("Pay")),
     Attr("rpc.system", StrValue("grpc"))}

EventPool ==
    {ValidationError,
     SpanEvent("exception", 8,
               <<Attr("exception.type", StrValue("Timeout")),
                 Attr("exception.message", IntValue(504)),
                 Attr("exception.escaped", StrValue("TRUE"))>>),
     SpanEvent("exception", 9, <<>>),
     SpanEvent("retry", 3, <<Attr("attempt", IntValue(2))>>)}

CheckoutResource ==
    Resource(<<Attr("service.name", StrValue("checkout"))>>, <<>>)
UnnamedResource == Resource(<<>>, <<>>)

NormInput(otelSpan, resource) ==
    [op |-> "newStructuredSpan", otelSpan |-> otelSpan, resource |-> resource]

NormInputs ==
    {NormInput([ChargeSpan EXCEPT !.Attributes = a], Resource(r, <<>>)) :
        a \in AttrSeqs(SpanTagEntries), r \in AttrSeqs(ResourceTagEntries)}
    \cup
    {NormInput([ChargeSpan EXCEPT !.Attributes = a, !.Kind = k],
               CheckoutResource) :
        a \in AttrSeqs(DimensionEntries), k \in {2, 3}}
    \cup
    {NormInput([PaySpan EXCEPT !.Events = e], r) :
        e \in SeqUpTo(EventPool, MaxEvents),
        r \in {CheckoutResource, UnnamedResource}}
    \cup
    {NormInput([PaySpan EXCEPT !.ParentSpanID = p, !.Links = l],
               CheckoutResource) :
        p \in ParentPool, l \in SeqUpTo(LinkPool, MaxLinks)}

InitCalls ==
    /\ spanKafkaWriter = TRUE
    /\ indexKafkaWriter = TRUE
    /\ errorKafkaWriter = TRUE
    /\ spanTopic = <<>>
    /\ indexTopic = <<>>
    /\ errorTopic = <<>>
    /\ attempts = <<>>
    /\ uuidState = 0
    /\ pc = "idle"
    /\ td = <<>>
    /\ pos = Done
    /\ structuredSpan = NoSpan
    /\ pushes = 0
    /\ returned = "none"
    /\ writeErr = "none"
    /\ fnIn \in RefInputs \cup NormInputs
    /\ fnOut = NoCall

CallMakeJaegerProtoReferences ==
    /\ fnIn.op = "makeJaegerProtoReferences"
    /\ fnOut.op = "none"
    /\ fnOut' = [op |-> fnIn.op,
                 refs |-> makeJaegerProtoReferences(fnIn.links,
                              fnIn.parentSpanID, fnIn.traceID)]
    /\ UNCHANGED <<spanKafkaWriter, indexKafkaWriter, errorKafkaWriter,
                   spanTopic, indexTopic, errorTopic, attempts, uuidState, pc,
                   td, pos, structuredSpan, pushes, returned, writeErr, fnIn>>

\* The call as pushTraceData makes it: the service name is the resource's.
CallNewStructuredSpan ==
    /\ fnIn.op = "newStructuredSpan"
    /\ fnOut.op = "none"
    /\ LET built == newStructuredSpan(fnIn.otelSpan,
                        ServiceNameForResource(fnIn.resource), fnIn.resource,
                        uuidState)
       IN  /\ fnOut' = [op |-> fnIn.op, span |-> built.span]
           /\ uuidState' = built.uuid
    /\ UNCHANGED <<spanKafkaWriter, indexKafkaWriter, errorKafkaWriter,
                   spanTopic, indexTopic, errorTopic, attempts, pc, td, pos,
                   structuredSpan, pushes, returned, writeErr, fnIn>>

NextCalls == CallMakeJaegerProtoReferences \/ CallNewStructuredSpan

SpecCalls == InitCalls /\ [][NextCalls]_vars

----------------------------------------------------------------------------
(* Properties of storage.write and pushTraceData (Spec).                   *)

\* The positions of the spans of a batch
Positions(batch) ==
    UNION {UNION {{<<i, j, k>> : k \in 1..Len(batch[i].ILS[j])} :
                     j \in 1..Len(batch[i].ILS)} :
              i \in 1..Len(batch)}

SpanAt(batch, p) == batch[p[1]].ILS[p[2]][p[3]]

\* Resource, library and span order
PosLess(p, q) ==
    \/ p[1] < q[1]
    \/ p[1] = q[1] /\ p[2] < q[2]
    \/ p[1] = q[1] /\ p[2] = q[2] /\ p[3] < q[3]

\* The attempts made before the n-th for the same span of the same call
EarlierOfSpan(n) ==
    {m \in 1..(n - 1) : /\ attempts[m].push = attempts[n].push
                        /\ attempts[m].pos = attempts[n].pos}

Accepted(topic) ==
    Cardinality({n \in 1..Len(attempts) :
                    attempts[n].topic = topic /\ attempts[n].ok})

\* No write call is in progress: the last attempt, if any, ended the last
\* write call that made attempts.
BetweenWrites == pc \in {"idle", "writeModel"}

\* C1: for one span the writes are attempted in the order trace-model, index,
\* error, each only after the earlier ones of that span were accepted: no
\* index attempt for a span whose trace-model write failed, no error attempt
\* for a span whose trace-model or index write failed. A failed trace-model or
\* index write is what write returns, and each topic holds exactly the
\* messages of the accepted attempts.
C1_FailFastInOrder ==
    /\ \A n \in 1..Len(attempts) :
          /\ \A m \in EarlierOfSpan(n) : attempts[m].ok
          /\ attempts[n].topic = "model" => EarlierOfSpan(n) = {}
          /\ attempts[n].topic = "index" =>
                /\ Cardinality(EarlierOfSpan(n)) = 1
                /\ \A m \in EarlierOfSpan(n) : attempts[m].topic = "model"
          /\ attempts[n].topic = "error" =>
                /\ Cardinality(EarlierOfSpan(n)) = 2
                /\ \A m \in EarlierOfSpan(n) :
                      attempts[m].topic = IF m + 1 \in EarlierOfSpan(n)
                                          THEN "model" ELSE "index"
    /\ Len(spanTopic) = Accepted("model")
    /\ Len(indexTopic) = Accepted("index")
    /\ Len(errorTopic) = Accepted("error")
    /\ (BetweenWrites /\ attempts # <<>>
            /\ ~attempts[Len(attempts)].ok
            /\ attempts[Len(attempts)].topic = "model")
          => writeErr = "model write failed"
    /\ (BetweenWrites /\ attempts # <<>>
            /\ ~attempts[Len(attempts)].ok
            /\ attempts[Len(attempts)].topic = "index")
          => writeErr = "index write failed"

\* A call has returned in which one span's trace-model write and another
\* span's index write failed, and a third span had all three writes.
C1_Witness ==
    /\ pc = "idle"
    /\ pushes = 1
    /\ \E n \in 1..Len(attempts) :
          attempts[n].topic = "model" /\ ~attempts[n].ok
    /\ \E n \in 1..Len(attempts) :
          attempts[n].topic = "index" /\ ~attempts[n].ok
    /\ \E n \in 1..Len(attempts) : attempts[n].topic = "error"

ModelAttemptsAt(p) ==
    {n \in 1..Len(attempts) : attempts[n].topic = "model" /\ attempts[n].pos = p}

\* C2: pushTraceData never returns an error, and whatever writes fail, every
\* span of the batch gets its own write attempt, in resource, library and
\* span order: while the call runs, the record being written is that of the
\* span at the current position and every span before it has had exactly one
\* attempt; when the call has returned nil, every span has had exactly one.
C2_BestEffortPerSpan ==
    /\ returned \in {"none", "nil"}
    /\ \A m, n \in 1..Len(attempts) :
          (m < n /\ attempts[m].pos # attempts[n].pos)
              => PosLess(attempts[m].pos, attempts[n].pos)
    /\ \A n \in 1..Len(attempts) : attempts[n].pos \in Positions(td)
    /\ pc # "idle" =>
          /\ pos \in Positions(td)
          /\ structuredSpan.SpanId = HexString(SpanAt(td, pos).SpanID)
          /\ structuredSpan.Name = SpanAt(td, pos).Name
          /\ structuredSpan.ServiceName = ServiceNameForResource(td[pos[1]])
          /\ \A p \in Positions(td) :
                PosLess(p, pos) => Cardinality(ModelAttemptsAt(p)) = 1
    /\ (pc = "idle" /\ pushes > 0) =>
          /\ returned = "nil"
          /\ \A p \in Positions(td) : Cardinality(ModelAttemptsAt(p)) = 1

\* A batch of two resources has been pushed: a write of a span of the first
\* failed, and a span of the second was written.
C2_Witness ==
    /\ pc = "idle"
    /\ pushes = 1
    /\ Len(td) = 2
    /\ \E m, n \in 1..Len(attempts) :
          /\ attempts[m].pos[1] = 1 /\ ~attempts[m].ok
          /\ attempts[n].pos[1] = 2 /\ attempts[n].ok

HasExceptionEvent(msgEvents) ==
    \E n \in 1..Len(msgEvents) : msgEvents[n].json.Name = "exception"

\* C3: every trace-model message and every index message of a span with an
\* exception event has hasError = true.
C3_ExceptionSetsHasError ==
    /\ \A n \in 1..Len(spanTopic) :
          LET model == spanTopic[n].Value.json.model.json
          IN  HasExceptionEvent(model.Events) => model.HasError
    /\ \A n \in 1..Len(indexTopic) :
          LET data == indexTopic[n].Value.json
          IN  HasExceptionEvent(data.events) => data.hasError

CarriesException(otelSpan) ==
    \E n \in 1..Len(otelSpan.Events) : otelSpan.Events[n].Name = "exception"

ErrorAttempts ==
    SelectSeq(attempts, LAMBDA a : a.topic = "error")

\* C4: when a call has returned and no write failed, every span with an
\* event named "exception" has had exactly one error write and every other
\* span none, and the error topic holds one message per such span, in span
\* order, with that span's id and service name.
C4_OneErrorMessagePerExceptionSpan ==
    (/\ pc = "idle"
     /\ pushes > 0
     /\ \A n \in 1..Len(attempts) : attempts[n].ok)
    =>
    /\ \A p \in Positions(td) :
          Cardinality({n \in 1..Len(ErrorAttempts) : ErrorAttempts[n].pos = p})
            = IF CarriesException(SpanAt(td, p)) THEN 1 ELSE 0
    /\ Len(errorTopic) = Len(ErrorAttempts)
    /\ \A n \in 1..Len(errorTopic) :
          LET data == errorTopic[n].Value.json
              p == ErrorAttempts[n].pos
          IN  /\ data.spanID = HexString(SpanAt(td, p).SpanID)
              /\ data.traceID = HexString(SpanAt(td, p).TraceID)
              /\ data.serviceName = ServiceNameForResource(td[p[1]])

\* Nothing failed in a batch of four spans: one with an exception event,
\* two without (one of them with status error), one with an exception event.
C4_Witness ==
    /\ pc = "idle"
    /\ pushes = 1
    /\ \A n \in 1..Len(attempts) : attempts[n].ok
    /\ Len(errorTopic) = 2
    /\ Len(indexTopic) = 4
    /\ CarriesException(SpanAt(td, <<1, 1, 1>>))
    /\ ~CarriesException(SpanAt(td, <<1, 2, 1>>))

----------------------------------------------------------------------------
(* Properties of the error ids across calls (SpecResubmit).                *)

SameGroupInputs(a, b) ==
    /\ a.serviceName = b.serviceName
    /\ a.exceptionType = b.exceptionType
    /\ a.exceptionMessage = b.exceptionMessage

\* C9: any two error messages, of one call or of two, have different error
\* ids, and the same group id whenever they agree on service name, exception
\* type and exception message, whatever else they differ in.
C9_GroupIdStableErrorIdFresh ==
    \A m, n \in 1..Len(errorTopic) :
        m < n =>
            LET a == errorTopic[m].Value.json
                b == errorTopic[n].Value.json
            IN  /\ a.errorID # b.errorID
                /\ SameGroupInputs(a, b) => a.groupID = b.groupID

\* The same batch was pushed twice and both error writes were accepted: the
\* two messages differ in the error id alone.
C9_Witness ==
    /\ pushes = 2
    /\ Len(errorTopic) = 2
    /\ errorTopic[1].Value.json.errorID # errorTopic[2].Value.json.errorID
    /\ [errorTopic[1].Value.json EXCEPT !.errorID = ""]
         = [errorTopic[2].Value.json EXCEPT !.errorID = ""]

----------------------------------------------------------------------------
(* Properties of makeJaegerProtoReferences and newStructuredSpan            *)
(* (SpecCalls).                                                            *)

\* The reference list of the finished call, with the links, parent span id
\* and trace id it was built from
CallRefs ==
    IF fnOut.op = "makeJaegerProtoReferences"
    THEN [refs |-> fnOut.refs, links |-> fnIn.links,
          parentSpanID |-> fnIn.parentSpanID, traceID |-> fnIn.traceID]
    ELSE [refs |-> fnOut.span.TraceModel.References,
          links |-> fnIn.otelSpan.Links,
          parentSpanID |-> fnIn.otelSpan.ParentSpanID,
          traceID |-> fnIn.otelSpan.TraceID]

\* C5: without a parent span id and without links the reference list is
\* empty.
C5_NoParentNoLinksNoRefs ==
    (fnOut.op # "none" /\ IsEmpty(CallRefs.parentSpanID)
        /\ CallRefs.links = <<>>)
    => CallRefs.refs = <<>>

\* C6: with a nonzero parent span id the reference list has one entry more
\* than there are links: first the CHILD_OF reference with the span's trace
\* id and the parent span id, then one FOLLOWS_FROM reference per link, with
\* the link's trace id and span id, in link order.
C6_ParentFirstThenLinks ==
    (fnOut.op # "none" /\ ~IsEmpty(CallRefs.parentSpanID))
    =>
    /\ Len(CallRefs.refs) = 1 + Len(CallRefs.links)
    /\ CallRefs.refs[1] =
          [TraceId |-> HexString(CallRefs.traceID),
           SpanId |-> HexString(CallRefs.parentSpanID),
           RefType |-> "CHILD_OF"]
    /\ \A n \in 1..Len(CallRefs.links) :
          CallRefs.refs[n + 1] =
              [TraceId |-> HexString(CallRefs.links[n].TraceID),
               SpanId |-> HexString(CallRefs.links[n].SpanID),
               RefType |-> "FOLLOWS_FROM"]

\* A span with a parent and two different links has been converted.
C6_Witness ==
    /\ fnOut.op = "newStructuredSpan"
    /\ ~IsEmpty(fnIn.otelSpan.ParentSpanID)
    /\ Len(fnIn.otelSpan.Links) = 2
    /\ fnIn.otelSpan.Links[1] # fnIn.otelSpan.Links[2]
    /\ Len(fnOut.span.TraceModel.References) = 3

\* What an attribute value puts into the tag map: nothing (FALSE) unless it
\* is an integer or has a non-empty string value
Contributes(v) == TypeString(v) = "INT" \/ StringVal(v) # ""
AsString(v) == IF TypeString(v) = "INT" THEN FormatInt(IntVal(v)) ELSE StringVal(v)

CollidingKeys ==
    {k \in {"k1", "k2", "service.name"} :
        /\ AttrFound(fnIn.otelSpan.Attributes, k)
        /\ AttrFound(fnIn.resource.Attributes, k)}

\* C7 as claimed: for every key of both attribute bags the tag map has the
\* resource attribute's value, whatever the two values are.
C7_ResourceValueAlways ==
    fnOut.op = "newStructuredSpan" =>
        \A k \in CollidingKeys :
            MapGet(fnOut.span.TagMap, k)
                = AsString(AttrGet(fnIn.resource.Attributes, k))

\* C7 as amended: for every key of both attribute bags, the tag map has the
\* resource attribute's value if that is an integer or a non-empty string;
\* else the resource attribute is skipped, and the tag map has the span
\* attribute's value if that is an integer or a non-empty string, and no
\* entry for the key otherwise. The trace-model record has the same map.
C7_ResourceValueUnlessSkipped ==
    fnOut.op = "newStructuredSpan" =>
        /\ fnOut.span.TraceModel.TagMap = fnOut.span.TagMap
        /\ \A k \in CollidingKeys :
              LET rv == AttrGet(fnIn.resource.Attributes, k)
                  sv == AttrGet(fnIn.otelSpan.Attributes, k)
              IN  IF Contributes(rv)
                  THEN /\ MapHas(fnOut.span.TagMap, k)
                       /\ MapGet(fnOut.span.TagMap, k) = AsString(rv)
                  ELSE IF Contributes(sv)
                  THEN /\ MapHas(fnOut.span.TagMap, k)
                       /\ MapGet(fnOut.span.TagMap, k) = AsString(sv)
                  ELSE ~MapHas(fnOut.span.TagMap, k)

\* Span and resource both have k1 and k2: on k1 two different non-empty
\* values, on k2 an empty resource value against a span integer.
C7_Witness ==
    /\ fnOut.op = "newStructuredSpan"
    /\ CollidingKeys = {"k1", "k2"}
    /\ AttrGet(fnIn.otelSpan.Attributes, "k1") = StrValue("b")
    /\ AttrGet(fnIn.resource.Attributes, "k1") = StrValue("a")
    /\ AttrGet(fnIn.otelSpan.Attributes, "k2") = IntValue(7)
    /\ AttrGet(fnIn.resource.Attributes, "k2") = StrValue("")
    /\ MapGet(fnOut.span.TagMap, "k1") = "a"
    /\ MapGet(fnOut.span.TagMap, "k2") = "7"


\* The string an event carries for attribute k: "" when it has none
EventAttr(ev, k) ==
    IF AttrFound(ev.Attributes, k) THEN AsString(AttrGet(ev.Attributes, k))
    ELSE ""

ExceptionEvents(events) ==
    {n \in 1..Len(events) : events[n].Name = "exception"}

LastException(events) ==
    CHOOSE n \in ExceptionEvents(events) :
        \A m \in ExceptionEvents(events) : m <= n

\* C8: the serialized event list has one entry per event of the span, in
\* input order, exception or not; the designated error event of a span with
\* exception events is the last of them, and the error group id is the hash
\* of the service name and that event's exception.type and
\* exception.message. A span without exception events has no error event.
C8_LastExceptionWins ==
    fnOut.op = "newStructuredSpan" =>
        LET events == fnIn.otelSpan.Events
            span == fnOut.span
        IN  /\ Len(span.Events) = Len(events)
            /\ span.TraceModel.Events = span.Events
            /\ \A n \in 1..Len(events) :
                  /\ span.Events[n].json.Name = events[n].Name
                  /\ span.Events[n].json.TimeUnixNano = events[n].Timestamp
                  /\ span.Events[n].json.IsError = (events[n].Name = "exception")
                  /\ \A m \in 1..Len(events[n].Attributes) :
                        MapGet(span.Events[n].json.AttributeMap,
                               events[n].Attributes[m].key)
                          = AsString(events[n].Attributes[m].value)
            /\ ExceptionEvents(events) = {} =>
                  /\ span.ErrorEvent = ZeroEvent
                  /\ span.ErrorID = ""
                  /\ span.ErrorGroupID = ""
            /\ ExceptionEvents(events) # {} =>
                  LET last == events[LastException(events)]
                  IN  /\ span.ErrorEvent = span.Events[LastException(events)].json
                      /\ span.ErrorEvent.TimeUnixNano = last.Timestamp
                      /\ span.ErrorID # ""
                      /\ span.ErrorGroupID =
                            Md5Hex(span.ServiceName
                                   \o EventAttr(last, "exception.type")
                                   \o EventAttr(last, "exception.message"))

\* A span with two different exception events and then another event has
\* been converted.
C8_Witness ==
    /\ fnOut.op = "newStructuredSpan"
    /\ Len(fnIn.otelSpan.Events) = 3
    /\ ExceptionEvents(fnIn.otelSpan.Events) = {1, 2}
    /\ EventAttr(fnIn.otelSpan.Events[1], "exception.type") = "ValidationError"
    /\ EventAttr(fnIn.otelSpan.Events[2], "exception.type") = "Timeout"
    /\ MapGet(fnOut.span.ErrorEvent.AttributeMap, "exception.type") = "Timeout"

StatusCodeKeys ==
    {"http.status_code", "rpc.grpc.status_code", "rpc.jsonrpc.error_code"}

\* The place of attribute k in the span's attributes
AttrIndex(k) ==
    CHOOSE n \in 1..Len(fnIn.otelSpan.Attributes) :
        fnIn.otelSpan.Attributes[n].key = k

\* C10 as claimed: a span with an rpc.jsonrpc.error_code attribute has that
\* attribute's string value as its response status code, whatever its other
\* attributes and their order.
C10_JsonRpcCodeAlways ==
    (/\ fnOut.op = "newStructuredSpan"
     /\ AttrFound(fnIn.otelSpan.Attributes, "rpc.jsonrpc.error_code"))
    => fnOut.span.ResponseStatusCode
         = StringVal(AttrGet(fnIn.otelSpan.Attributes, "rpc.jsonrpc.error_code"))

\* C10 as amended: a span with an rpc.jsonrpc.error_code attribute that no
\* http.status_code and no rpc.grpc.status_code attribute follows in
\* iteration order has that attribute's string value as its response status
\* code.
C10_JsonRpcCodeWhenLast ==
    (/\ fnOut.op = "newStructuredSpan"
     /\ AttrFound(fnIn.otelSpan.Attributes, "rpc.jsonrpc.error_code")
     /\ \A n \in 1..Len(fnIn.otelSpan.Attributes) :
           fnIn.otelSpan.Attributes[n].key \in StatusCodeKeys
               => n <= AttrIndex("rpc.jsonrpc.error_code"))
    => fnOut.span.ResponseStatusCode
         = StringVal(AttrGet(fnIn.otelSpan.Attributes, "rpc.jsonrpc.error_code"))

\* A span with http.status_code 500 and then rpc.jsonrpc.error_code "-32700"
\* has been converted.
C10_Witness ==
    /\ fnOut.op = "newStructuredSpan"
    /\ fnIn.otelSpan.Attributes =
          <<Attr("http.status_code", IntValue(500)),
            Attr("rpc.jsonrpc.error_code", StrValue("-32700"))>>
    /\ fnOut.span.HttpCode = "500"
    /\ fnOut.span.ResponseStatusCode = "-32700"

====
